---- MODULE Spec2Model ----
(***************************************************************************)
(* A model of src/matrix.rs: the dense row-major Matrix<T>, its two        *)
(* constructors, its indexers, and the + and * operators.                  *)
(*                                                                         *)
(* A run is one client program of the shape of the tests: it binds a       *)
(* matrix to the name a, then one to b, and then performs one operation: a *)
(* read or a write of a cell, a comparison of the two, or a + b or a * b,  *)
(* which moves both into the call and binds the result to a.  The client   *)
(* propagates an Err of try_from, and a panic unwinds it: both end the run.*)
(***************************************************************************)
EXTENDS Integers, Sequences, FiniteSets, TLC

(***************************************************************************)
(* Bounds of the model.                                                    *)
(***************************************************************************)
MaxDim == 3        \* largest row or column count a client passes
MaxCells == 4      \* most cells of a nested input handed to try_from
UsizeBits == 5     \* width of usize, scaled down from the platform's 64
ElemMax == 4       \* the element type saturates at -ElemMax and ElemMax

(***************************************************************************)
(* usize: rows, cols, offsets and lengths.                                 *)
(***************************************************************************)
UsizeMod == 2 ^ UsizeBits
IsizeMax == 2 ^ (UsizeBits - 1) - 1
HalfUsize == 2 ^ (UsizeBits - 1)

(***************************************************************************)
(* The element type T.  The code is generic; the model instantiates T with *)
(* a saturating integer (std::num::Saturating): Default is 0, + and * are  *)
(* total and commutative, 0 is the identity of +, and + is not associative.*)
(***************************************************************************)
Elem == (0 - ElemMax)..ElemMax
Clamp(x) == IF x > ElemMax THEN ElemMax ELSE IF x < 0 - ElemMax THEN 0 - ElemMax ELSE x
TDefault == 0
TAdd(x, y) == Clamp(x + y)
TMul(x, y) == Clamp(x * y)

\* The element values a client supplies.
InVals == {0 - 2, 2}

(***************************************************************************)
(* struct Matrix<T> { data, rows, cols }.  data is a Vec: a sequence whose *)
(* element at 0-based offset n is data[n + 1].                             *)
(***************************************************************************)
Matrix(d, r, c) == [data |-> d, rows |-> r, cols |-> c]

\* Option: a name that is bound holds <<m>>, an unbound (or moved-from) one <<>>.
None == <<>>
Some(m) == <<m>>
IsSome(o) == o # <<>>
Val(o) == o[1]

\* The outcome of a call: it panicked, or it returned val.
Panic == [panic |-> TRUE]
Returned(v) == [panic |-> FALSE, val |-> v]

\* An equality that compares the shapes and the lengths, not the elements.
MatEq_ShapeOnly(x, y) == Len(x.data) = Len(y.data) /\ x.rows = y.rows /\ x.cols = y.cols

\* #[derive(PartialEq)]: the fields are compared in turn; two Vecs are equal
\* when they have the same length and equal elements at each position.
VecEq(x, y) == Len(x) = Len(y) /\ \A n \in 1..Len(x) : x[n] = y[n]
MatEq(x, y) == VecEq(x.data, y.data) /\ x.rows = y.rows /\ x.cols = y.cols

\* Matrix::new.  dim = rows * cols is computed in usize: a product that does
\* not fit panics when the build checks overflow and wraps when it does not.
\* Vec::with_capacity panics ("capacity overflow") past isize::MAX.
NewMatrix(rows, cols, checks) ==
    LET prod == rows * cols
        dim == prod % UsizeMod
    IN IF prod >= UsizeMod /\ checks THEN Panic
       ELSE IF dim > IsizeMax THEN Panic
       ELSE Returned(Matrix([n \in 1..dim |-> TDefault], rows, cols))

\* Iterator::flatten + collect over the rows of a Vec<Vec<T>>.
RECURSIVE Flatten(_)
Flatten(value) ==
    IF Len(value) = 0 THEN <<>> ELSE Head(value) \o Flatten(Tail(value))

ErrEmpty == "Nested vec is empty"
ErrEmptyRow == "Nested vec contains an empty row"
ErrNotMatrix == "Nested vec is not a matrix"

Err(msg) == [ok |-> FALSE, err |-> msg]
Ok(m) == [ok |-> TRUE, val |-> m]

\* try_from with the rectangle checked before the first row's length.
TryFromVec_RaggedFirst(value) ==
    LET rows == Len(value)
    IN IF rows = 0 THEN Err(ErrEmpty)
       ELSE LET cols == Len(value[1])
            IN IF ~(\A n \in 1..rows : cols = Len(value[n])) THEN Err(ErrNotMatrix)
               ELSE IF cols = 0 THEN Err(ErrEmptyRow)
               ELSE Ok(Matrix(Flatten(value), rows, cols))

\* TryFrom<Vec<Vec<T>>>::try_from.
TryFromVec(value) ==
    LET rows == Len(value)
    IN IF rows = 0 THEN Err(ErrEmpty)
       ELSE LET cols == Len(value[1])
            IN IF cols = 0 THEN Err(ErrEmptyRow)
               ELSE IF ~(\A n \in 1..rows : cols = Len(value[n])) THEN Err(ErrNotMatrix)
               ELSE Ok(Matrix(Flatten(value), rows, cols))

\* The offset with the row count as the stride: i * self.rows + j.
IndexOffset_RowStride(m, i, j, checks) ==
    LET raw == i * m.rows + j
        off == raw % UsizeMod
    IN IF raw >= UsizeMod /\ checks THEN Panic
       ELSE IF off >= Len(m.data) THEN Panic
       ELSE [panic |-> FALSE, off |-> off]

\* The offset i * self.cols + j of Index::index and IndexMut::index_mut,
\* computed in usize, then bounds-checked by the Vec: the 0-based offset of
\* the cell the returned reference points to, or a panic.
IndexOffset(m, i, j, checks) ==
    LET raw == i * m.cols + j
        off == raw % UsizeMod
    IN IF raw >= UsizeMod /\ checks THEN Panic
       ELSE IF off >= Len(m.data) THEN Panic
       ELSE [panic |-> FALSE, off |-> off]

\* self[(i, j)]: the value read, or a panic.
IndexGet(m, i, j, checks) ==
    LET r == IndexOffset(m, i, j, checks)
    IN IF r.panic THEN Panic ELSE Returned(m.data[r.off + 1])

\* self[(i, j)] = v: the matrix after the write, or a panic.
IndexSet(m, i, j, v, checks) ==
    LET r == IndexOffset(m, i, j, checks)
    IN IF r.panic THEN Panic
       ELSE Returned([m EXCEPT !.data = [m.data EXCEPT ![r.off + 1] = v]])

(***************************************************************************)
(* Add::add and Mul::mul, one loop iteration at a time.                    *)
(***************************************************************************)

\* The assertion with the row counts alone.
AddAssert_RowsOnly(self, rhs) == self.rows = rhs.rows

\* assert!(self.rows == rhs.rows && self.cols == rhs.cols)
AddAssert(self, rhs) == self.rows = rhs.rows /\ self.cols = rhs.cols

\* The outer loop one row short: for i in 0..self.rows - 1.
AddInLoop_RowShort(self, i, j) == i < self.rows - 1 /\ j < self.cols

\* for i in 0..self.rows { for j in 0..self.cols { .. } }: is (i, j) an iteration?
AddInLoop(self, i, j) == i < self.rows /\ j < self.cols

\* The iteration after (i, j).
AddAdvance(self, i, j) ==
    IF j + 1 < self.cols THEN [i |-> i, j |-> j + 1] ELSE [i |-> i + 1, j |-> 0]

\* The body with self read twice: self[(i, j)] + self[(i, j)].
AddBody_SelfTwice(res, self, rhs, i, j, checks) ==
    LET x == IndexGet(self, i, j, checks)
        y == IndexGet(rhs, i, j, checks)
    IN IF x.panic \/ y.panic THEN Panic
       ELSE IndexSet(res, i, j, TAdd(x.val, x.val), checks)

\* res[(i, j)] = self[(i, j)] + rhs[(i, j)]
AddBody(res, self, rhs, i, j, checks) ==
    LET x == IndexGet(self, i, j, checks)
        y == IndexGet(rhs, i, j, checks)
    IN IF x.panic \/ y.panic THEN Panic
       ELSE IndexSet(res, i, j, TAdd(x.val, y.val), checks)

\* assert!(self.cols == rhs.rows)
MulAssert(self, rhs) == self.cols = rhs.rows

\* for k in 0..self.cols { for i in 0..self.rows { for j in 0..rhs.cols { .. } } }
MulInLoop(self, rhs, k, i, j) == k < self.cols /\ i < self.rows /\ j < rhs.cols

\* The loop nest with k innermost: for i { for j { for k { .. } } }.
MulAdvance_KInner(self, rhs, k, i, j) ==
    IF k + 1 < self.cols THEN [k |-> k + 1, i |-> i, j |-> j]
    ELSE IF j + 1 < rhs.cols THEN [k |-> 0, i |-> i, j |-> j + 1]
    ELSE IF i + 1 < self.rows THEN [k |-> 0, i |-> i + 1, j |-> 0]
    ELSE [k |-> self.cols, i |-> 0, j |-> 0]

\* The iteration after (k, i, j).
MulAdvance(self, rhs, k, i, j) ==
    IF j + 1 < rhs.cols THEN [k |-> k, i |-> i, j |-> j + 1]
    ELSE IF i + 1 < self.rows THEN [k |-> k, i |-> i + 1, j |-> 0]
    ELSE [k |-> k + 1, i |-> 0, j |-> 0]

\* The body with the left operand read transposed: self[(k, i)].
MulBody_Transposed(res, self, rhs, k, i, j, checks) ==
    LET acc == IndexGet(res, i, j, checks)
        x == IndexGet(self, k, i, checks)
        y == IndexGet(rhs, k, j, checks)
    IN IF acc.panic \/ x.panic \/ y.panic THEN Panic
       ELSE IndexSet(res, i, j, TAdd(acc.val, TMul(x.val, y.val)), checks)

\* res[(i, j)] += self[(i, k)] * rhs[(k, j)]
MulBody(res, self, rhs, k, i, j, checks) ==
    LET acc == IndexGet(res, i, j, checks)
        x == IndexGet(self, i, k, checks)
        y == IndexGet(rhs, k, j, checks)
    IN IF acc.panic \/ x.panic \/ y.panic THEN Panic
       ELSE IndexSet(res, i, j, TAdd(acc.val, TMul(x.val, y.val)), checks)

\* The whole of Add::add as a function of its operands.
RECURSIVE AddLoop(_, _, _, _, _, _)
AddLoop(res, self, rhs, i, j, checks) ==
    IF ~AddInLoop(self, i, j) THEN Returned(res)
    ELSE LET r == AddBody(res, self, rhs, i, j, checks)
             n == AddAdvance(self, i, j)
         IN IF r.panic THEN Panic ELSE AddLoop(r.val, self, rhs, n.i, n.j, checks)

MatAdd(self, rhs, checks) ==
    IF ~AddAssert(self, rhs) THEN Panic
    ELSE LET r == NewMatrix(self.rows, self.cols, checks)
         IN IF r.panic THEN Panic ELSE AddLoop(r.val, self, rhs, 0, 0, checks)

(***************************************************************************)
(* The inputs a client hands to the constructors and indexers.             *)
(***************************************************************************)
RECURSIVE SumSeq(_)
SumSeq(l) == IF Len(l) = 0 THEN 0 ELSE Head(l) + SumSeq(Tail(l))

\* The row lengths of the nested inputs: up to MaxDim rows of up to MaxDim
\* values each (empty, ragged and rectangular), MaxCells values in all.
RowLengths ==
    {l \in UNION {[1..r -> 0..MaxDim] : r \in 0..MaxDim} : SumSeq(l) <= MaxCells}

\* The nested Vec with row lengths l whose values, row after row, are flat.
Nested(l, flat) ==
    [n \in 1..Len(l) |->
        SubSeq(flat, SumSeq(SubSeq(l, 1, n - 1)) + 1, SumSeq(SubSeq(l, 1, n)))]

NestedInputs ==
    UNION {{Nested(l, flat) : flat \in [1..SumSeq(l) -> InVals]} : l \in RowLengths}

\* The dimensions and the indices a client passes: the small ones, and with
\* them one whose products do not fit usize.
SmallDims == 0..MaxDim
WideDims == SmallDims \cup {HalfUsize}
SmallIndices == 0..(MaxDim - 1)
WideIndices == SmallIndices \cup {HalfUsize}

Slots == {"a", "b"}

(***************************************************************************)
(* State.                                                                  *)
(***************************************************************************)
VARIABLES
    mat,        \* mat[s]: the matrix bound to name s, if any
    validated,  \* validated[s]: mat[s] descends from try_from values only
    pc,         \* "idle", inside "add" or "mul", "done", "failed" or "panicked"
    self,       \* the left operand moved into the running add or mul
    rhs,        \* the right operand moved into it
    res,        \* its local res
    k, i, j,    \* its loop variables
    out,        \* what the last operation was and what it returned
    checks      \* the build checks integer overflow (debug) or wraps (release)

vars == <<mat, validated, pc, self, rhs, res, k, i, j, out, checks>>

Init ==
    /\ mat = [s \in Slots |-> None]
    /\ validated = [s \in Slots |-> FALSE]
    /\ pc = "idle"
    /\ self = None /\ rhs = None /\ res = None
    /\ k = 0 /\ i = 0 /\ j = 0
    /\ out = [op |-> "start"]
    /\ checks \in BOOLEAN

Ready == pc = "idle"
Frame == UNCHANGED <<self, rhs, res, k, i, j, checks>>

\* The next name the client binds.
Unbound(s) == mat[s] = None /\ (s = "b" => mat["a"] # None)

\* let s = Matrix::try_from(value)?: binds s when it returns Ok.
TryFrom(s) ==
    /\ Ready /\ Unbound(s)
    /\ \E value \in NestedInputs :
         LET r == TryFromVec(value)
         IN /\ out' = [op |-> "try_from", slot |-> s, input |-> value, ret |-> r]
            /\ mat' = IF r.ok THEN [mat EXCEPT ![s] = Some(r.val)] ELSE mat
            /\ validated' = IF r.ok THEN [validated EXCEPT ![s] = TRUE] ELSE validated
            /\ pc' = IF r.ok THEN pc ELSE "failed"
    /\ Frame

\* let s = Matrix::new(rows, cols), with rows and cols drawn from D.
New(s, D) ==
    /\ Ready /\ Unbound(s)
    /\ \E rows \in D, cols \in D :
         LET r == NewMatrix(rows, cols, checks)
         IN /\ out' = [op |-> "new", slot |-> s, rows |-> rows, cols |-> cols,
                        panic |-> r.panic]
            /\ pc' = IF r.panic THEN "panicked" ELSE pc
            /\ mat' = IF r.panic THEN mat ELSE [mat EXCEPT ![s] = Some(r.val)]
            /\ validated' = IF r.panic THEN validated ELSE [validated EXCEPT ![s] = FALSE]
    /\ Frame

\* let x = s[(row, col)]
IndexRead(s, D) ==
    /\ Ready
    /\ IsSome(mat[s])
    /\ \E row \in D, col \in D :
         LET r == IndexOffset(Val(mat[s]), row, col, checks)
             x == IndexGet(Val(mat[s]), row, col, checks)
         IN /\ out' = [op |-> "index", slot |-> s, i |-> row, j |-> col,
                        panic |-> x.panic, ref |-> r, ret |-> x]
            /\ pc' = IF x.panic THEN "panicked" ELSE "done"
    /\ UNCHANGED <<mat, validated>>
    /\ Frame

\* s[(row, col)] = v
IndexWrite(s, D) ==
    /\ Ready
    /\ IsSome(mat[s])
    /\ \E row \in D, col \in D, v \in InVals :
         LET r == IndexOffset(Val(mat[s]), row, col, checks)
             m == IndexSet(Val(mat[s]), row, col, v, checks)
         IN /\ out' = [op |-> "index_mut", slot |-> s, i |-> row, j |-> col,
                        v |-> v, panic |-> m.panic, ref |-> r,
                        shape |-> <<Val(mat[s]).rows, Val(mat[s]).cols>>]
            /\ pc' = IF m.panic THEN "panicked" ELSE "done"
            /\ mat' = IF m.panic THEN mat ELSE [mat EXCEPT ![s] = Some(m.val)]
    /\ UNCHANGED validated
    /\ Frame

\* a == b
Equals ==
    /\ Ready
    /\ IsSome(mat["a"]) /\ IsSome(mat["b"])
    /\ out' = [op |-> "eq", ret |-> MatEq(Val(mat["a"]), Val(mat["b"]))]
    /\ pc' = "done"
    /\ UNCHANGED <<mat, validated>>
    /\ Frame

\* The caller's side of a + b and a * b: both names are moved into the call.
Call ==
    /\ Ready
    /\ IsSome(mat["a"]) /\ IsSome(mat["b"])
    /\ self' = mat["a"] /\ rhs' = mat["b"]
    /\ mat' = [s \in Slots |-> None]
    /\ k' = 0 /\ i' = 0 /\ j' = 0
    /\ UNCHANGED <<validated, checks>>

\* The callee's first statements: the assertion, then res = Matrix::new(..).
Enter(op, asserted, r) ==
    /\ Call
    /\ IF asserted /\ ~r.panic
       THEN /\ pc' = op
            /\ res' = Some(r.val)
            /\ out' = [op |-> op, panic |-> FALSE, done |-> FALSE]
       ELSE /\ pc' = "panicked"
            /\ res' = None
            /\ out' = [op |-> op, panic |-> TRUE, done |-> FALSE,
                        asserted |-> asserted]

\* A panic inside a loop body.
Abort(op) ==
    /\ pc' = "panicked"
    /\ out' = [op |-> op, panic |-> TRUE, done |-> FALSE, asserted |-> TRUE]
    /\ UNCHANGED <<mat, validated, self, rhs, res, k, i, j, checks>>

\* `res` as the value of the call: the caller binds it to a.
Return(op) ==
    /\ pc' = "done"
    /\ mat' = [mat EXCEPT !["a"] = res]
    /\ validated' = [a |-> validated["a"] /\ validated["b"], b |-> FALSE]
    /\ res' = None
    /\ out' = [op |-> op, panic |-> FALSE, done |-> TRUE]
    /\ UNCHANGED <<self, rhs, k, i, j, checks>>

AddStart ==
    /\ Ready /\ IsSome(mat["a"]) /\ IsSome(mat["b"])
    /\ LET x == Val(mat["a"])
           y == Val(mat["b"])
       IN Enter("add", AddAssert(x, y), NewMatrix(x.rows, x.cols, checks))

AddStep ==
    /\ pc = "add"
    /\ AddInLoop(Val(self), i, j)
    /\ LET r == AddBody(Val(res), Val(self), Val(rhs), i, j, checks)
           n == AddAdvance(Val(self), i, j)
       IN IF r.panic THEN Abort("add")
          ELSE /\ res' = Some(r.val)
               /\ i' = n.i /\ j' = n.j
               /\ UNCHANGED <<mat, validated, pc, self, rhs, k, out, checks>>

AddReturn ==
    /\ pc = "add"
    /\ ~AddInLoop(Val(self), i, j)
    /\ Return("add")

MulStart ==
    /\ Ready /\ IsSome(mat["a"]) /\ IsSome(mat["b"])
    /\ LET x == Val(mat["a"])
           y == Val(mat["b"])
       IN Enter("mul", MulAssert(x, y), NewMatrix(x.rows, y.cols, checks))

MulStep ==
    /\ pc = "mul"
    /\ MulInLoop(Val(self), Val(rhs), k, i, j)
    /\ LET r == MulBody(Val(res), Val(self), Val(rhs), k, i, j, checks)
           n == MulAdvance(Val(self), Val(rhs), k, i, j)
       IN IF r.panic THEN Abort("mul")
          ELSE /\ res' = Some(r.val)
               /\ k' = n.k /\ i' = n.i /\ j' = n.j
               /\ UNCHANGED <<mat, validated, pc, self, rhs, out, checks>>

MulReturn ==
    /\ pc = "mul"
    /\ ~MulInLoop(Val(self), Val(rhs), k, i, j)
    /\ Return("mul")

Arith == AddStart \/ AddStep \/ AddReturn \/ MulStart \/ MulStep \/ MulReturn

Next ==
    \/ \E s \in Slots : TryFrom(s)
    \/ \E s \in Slots : New(s, SmallDims)
    \/ \E s \in Slots : IndexRead(s, SmallIndices)
    \/ \E s \in Slots : IndexWrite(s, SmallIndices)
    \/ Equals
    \/ Arith

Spec == Init /\ [][Next]_vars

\* The same program with dimensions and indices of the whole usize range.
NextWide ==
    \/ \E s \in Slots : TryFrom(s)
    \/ \E s \in Slots : New(s, WideDims)
    \/ \E s \in Slots : IndexRead(s, WideIndices)
    \/ \E s \in Slots : IndexWrite(s, WideIndices)
    \/ Equals
    \/ Arith

SpecWide == Init /\ [][NextWide]_vars

(***************************************************************************)
(* What the claims speak of.                                               *)
(***************************************************************************)

\* Cell (i, j) of a row-major matrix, 0-based.
Cell(m, p, q) == m.data[p * m.cols + q + 1]
InRange(m, p, q) == p >= 0 /\ p < m.rows /\ q >= 0 /\ q < m.cols
ShapeOK(m) == Len(m.data) = m.rows * m.cols
Bound(s) == IsSome(mat[s])
SameShape(A, B) == A.rows = B.rows /\ A.cols = B.cols
Conformable(A, B) == A.cols = B.rows

\* The spec's names for the three errors of try_from.
EmptyInput == ErrEmpty
EmptyRow == ErrEmptyRow
RaggedRows == ErrNotMatrix

IsEmptyInput(v) == Len(v) = 0
HasEmptyFirstRow(v) == Len(v) > 0 /\ Len(v[1]) = 0
IsRagged(v) == Len(v) > 0 /\ \E n \in 1..Len(v) : Len(v[n]) # Len(v[1])
Rectangular(v) == ~IsEmptyInput(v) /\ ~HasEmptyFirstRow(v) /\ ~IsRagged(v)

\* C1: try_from classifies its input by three checks in a fixed order: no rows
\* is EmptyInput; else an empty first row is EmptyRow; else a row whose length
\* differs from the first row's is RaggedRows; else it succeeds.  The three
\* errors differ from one another, and an input that is empty or ragged never
\* yields a matrix.
C1_TryFromClassifies ==
    /\ Cardinality({EmptyInput, EmptyRow, RaggedRows}) = 3
    /\ out.op = "try_from" =>
         LET v == out.input
             r == out.ret
         IN /\ IsEmptyInput(v) => (~r.ok /\ r.err = EmptyInput)
            /\ (~IsEmptyInput(v) /\ HasEmptyFirstRow(v)) => (~r.ok /\ r.err = EmptyRow)
            /\ (~IsEmptyInput(v) /\ ~HasEmptyFirstRow(v) /\ IsRagged(v))
                  => (~r.ok /\ r.err = RaggedRows)
            /\ Rectangular(v) => (r.ok /\ mat[out.slot] = Some(r.val))
            /\ ~Rectangular(v) => (~r.ok /\ mat[out.slot] = None /\ pc = "failed")

\* An input whose first row is empty and whose second is not: both the
\* EmptyRow and the RaggedRows check would reject it, and EmptyRow is reported.
C1_Witness ==
    /\ out.op = "try_from"
    /\ Len(out.input) >= 2
    /\ Len(out.input[1]) = 0 /\ Len(out.input[2]) > 0
    /\ ~out.ret.ok /\ out.ret.err = EmptyRow

\* C2: for every non-empty rectangular nested input R, try_from(R) succeeds
\* with rows = Len(R) and cols = Len(R[0]), data is the rows concatenated in
\* order, and the indexed read of every in-range (i, j) returns R[i][j] from
\* flat offset i * cols + j.
C2_RoundTrip ==
    (out.op = "try_from" /\ Rectangular(out.input)) =>
        /\ out.ret.ok
        /\ LET R == out.input
               m == Val(mat[out.slot])
           IN /\ m.rows = Len(R) /\ m.cols = Len(R[1])
              /\ Len(m.data) = Len(R) * Len(R[1])
              /\ \A p \in 0..(Len(R) - 1), q \in 0..(Len(R[1]) - 1) :
                    /\ m.data[p * Len(R[1]) + q + 1] = R[p + 1][q + 1]
                    /\ IndexGet(m, p, q, checks) = Returned(R[p + 1][q + 1])
                    /\ IndexOffset(m, p, q, checks).off = p * Len(R[1]) + q

\* A 2 x 1 and a 2 x 2 input are the smallest that tell row-major from the
\* other layouts: here a 2 x 2 whose (0, 1) and (1, 0) differ.
C2_Witness ==
    /\ out.op = "try_from" /\ out.ret.ok
    /\ Len(out.input) = 2 /\ Len(out.input[1]) = 2
    /\ out.input[1][2] # out.input[2][1]
    /\ IndexGet(Val(mat[out.slot]), 1, 0, checks) = Returned(out.input[2][1])

\* C3: every matrix a program holds has data.length = rows * cols; a matrix
\* that descends from try_from values only (through add, mul and indexed
\* writes) has rows >= 1 and cols >= 1; an indexed write changes neither rows
\* nor cols.
C3_ShapeInvariant ==
    /\ \A s \in Slots : Bound(s) =>
          /\ ShapeOK(Val(mat[s]))
          /\ validated[s] => (Val(mat[s]).rows >= 1 /\ Val(mat[s]).cols >= 1)
    /\ (out.op = "index_mut" /\ ~out.panic) =>
          out.shape = <<Val(mat[out.slot]).rows, Val(mat[out.slot]).cols>>

\* The part of C3 that is about the validated path and about writes.
C3_ValidatedShape ==
    /\ \A s \in Slots : (Bound(s) /\ validated[s]) =>
          /\ ShapeOK(Val(mat[s]))
          /\ Val(mat[s]).rows >= 1 /\ Val(mat[s]).cols >= 1
    /\ (out.op = "index_mut" /\ ~out.panic) =>
          out.shape = <<Val(mat[out.slot]).rows, Val(mat[out.slot]).cols>>

\* The sum over k of A(p, k) * B(k, q) in T, k ascending.
RECURSIVE LeftFold(_, _, _, _, _)
LeftFold(A, B, p, q, n) ==
    IF n = 0 THEN TDefault
    ELSE TAdd(LeftFold(A, B, p, q, n - 1), TMul(Cell(A, p, n - 1), Cell(B, n - 1, q)))

\* The same sum over the integers, and whether T's arithmetic is exact on it.
RECURSIVE IntSum(_, _, _, _, _)
IntSum(A, B, p, q, n) ==
    IF n = 0 THEN 0
    ELSE IntSum(A, B, p, q, n - 1) + Cell(A, p, n - 1) * Cell(B, n - 1, q)
Exact(A, B, p, q) ==
    \A n \in 1..A.cols :
        /\ IntSum(A, B, p, q, n) \in Elem
        /\ Cell(A, p, n - 1) * Cell(B, n - 1, q) \in Elem

\* Iterations of mul's loop nest done before (k, i, j), and in all.
MulRank(A, B, kk, ii, jj) == (kk * A.rows + ii) * B.cols + jj
MulTotal(A, B) == A.cols * A.rows * B.cols

\* C4: for A, B with A.cols = B.rows, A * B does not panic, runs at most
\* A.cols * A.rows * B.cols iterations, and returns a matrix of A.rows rows
\* and B.cols columns whose cell (i, j) is the sum over k of A(i, k) * B(k, j):
\* T's sum, which is the integers' sum wherever T's arithmetic is exact.
C4_MulCorrect ==
    /\ (out.op = "mul" /\ Conformable(Val(self), Val(rhs))) => ~out.panic
    /\ pc = "mul" => MulRank(Val(self), Val(rhs), k, i, j) <= MulTotal(Val(self), Val(rhs))
    /\ (out.op = "mul" /\ out.done) =>
         LET A == Val(self)
             B == Val(rhs)
             C == Val(mat["a"])
         IN /\ C.rows = A.rows /\ C.cols = B.cols
            /\ Len(C.data) = A.rows * B.cols
            /\ \A p \in 0..(A.rows - 1), q \in 0..(B.cols - 1) :
                  /\ Cell(C, p, q) = LeftFold(A, B, p, q, A.cols)
                  /\ Exact(A, B, p, q) => Cell(C, p, q) = IntSum(A, B, p, q, A.cols)

\* A 2 x 2 times a 2 x 2, both from try_from: cell (1, 0) of the product is an
\* exact sum of two nonzero terms.
C4_Witness ==
    /\ out.op = "mul" /\ out.done
    /\ Val(self).rows = 2 /\ Val(self).cols = 2 /\ Val(rhs).cols = 2
    /\ Val(self).data = <<2, 2, 2, 0 - 2>>
    /\ Exact(Val(self), Val(rhs), 1, 0)
    /\ Val(mat["a"]).data # <<0, 0, 0, 0>>

\* C5: for A, B of equal rows and cols, A + B returns a matrix of the same
\* rows and cols in which every cell (i, j) is A(i, j) + B(i, j).
C5_AddCorrect ==
    /\ (out.op = "add" /\ SameShape(Val(self), Val(rhs))) => ~out.panic
    /\ (out.op = "add" /\ out.done) =>
         LET A == Val(self)
             B == Val(rhs)
             C == Val(mat["a"])
         IN /\ C.rows = A.rows /\ C.cols = A.cols
            /\ Len(C.data) = A.rows * A.cols
            /\ \A p \in 0..(A.rows - 1), q \in 0..(A.cols - 1) :
                  Cell(C, p, q) = TAdd(Cell(A, p, q), Cell(B, p, q))

\* Two 2 x 2 operands that differ, added to a sum with three distinct cells.
C5_Witness ==
    /\ out.op = "add" /\ out.done
    /\ Val(self).rows = 2 /\ Val(self).cols = 2
    /\ Val(self) # Val(rhs)
    /\ Cardinality({Val(mat["a"]).data[n] : n \in 1..4}) = 3

\* C6: add with operands whose rows or cols differ, and mul with
\* self.cols # rhs.rows, panic on the assertion before res exists and before
\* any iteration runs: no result is bound, and only operands that pass the
\* assertion are ever inside a loop or returned from.
C6_MismatchPanics ==
    /\ (out.op = "add" /\ ~SameShape(Val(self), Val(rhs))) =>
          (pc = "panicked" /\ out.panic /\ ~out.asserted /\ res = None
             /\ mat = [s \in Slots |-> None] /\ <<k, i, j>> = <<0, 0, 0>>)
    /\ (out.op = "mul" /\ ~Conformable(Val(self), Val(rhs))) =>
          (pc = "panicked" /\ out.panic /\ ~out.asserted /\ res = None
             /\ mat = [s \in Slots |-> None] /\ <<k, i, j>> = <<0, 0, 0>>)
    /\ pc = "add" => SameShape(Val(self), Val(rhs))
    /\ pc = "mul" => Conformable(Val(self), Val(rhs))

\* A 2 x 1 added to a 2 x 2: the rows agree and the cols do not.
C6_Witness ==
    /\ out.op = "add" /\ out.panic /\ pc = "panicked"
    /\ Val(self).rows = 2 /\ Val(rhs).rows = 2
    /\ Val(self).cols = 1 /\ Val(rhs).cols = 2
    /\ validated["a"] /\ validated["b"]

\* A 2 x 3 times a 2 x 2: the inner dimensions are 3 and 2.
C6_WitnessMul ==
    /\ out.op = "mul" /\ out.panic /\ pc = "panicked"
    /\ Val(self).rows = 2 /\ Val(self).cols = 3
    /\ Val(rhs).rows = 2 /\ Val(rhs).cols = 2

\* C7: an indexed read or write at (i, j) outside 0 <= i < rows, 0 <= j < cols
\* panics and returns no reference.
C7_OutOfRangePanics ==
    (out.op \in {"index", "index_mut"}
       /\ ~InRange(Val(mat[out.slot]), out.i, out.j)) => out.panic

\* What the indexers do enforce: the reference returned is inside data.
C7_FlatBound ==
    (out.op \in {"index", "index_mut"} /\ ~out.panic) =>
        /\ out.ref.off < Len(Val(mat[out.slot]).data)
        /\ out.ref.off = (out.i * Val(mat[out.slot]).cols + out.j) % UsizeMod

\* The value of a call that returned.
Value(r) == r.val
ZeroLike(A) == NewMatrix(A.rows, A.cols, checks)

\* C8: for A, B of equal shape over T, whose addition commutes, A + B == B + A;
\* and A + new(A.rows, A.cols) == A == new(A.rows, A.cols) + A, new's cells
\* being T's default.  It is stated of the matrices a constructor has just
\* bound: every matrix and every pair of matrices an operation is applied to.
C8_AddCommutesAndZero ==
    /\ (pc = "idle" /\ Bound("a") /\ Bound("b")
          /\ SameShape(Val(mat["a"]), Val(mat["b"]))) =>
         LET x == MatAdd(Val(mat["a"]), Val(mat["b"]), checks)
             y == MatAdd(Val(mat["b"]), Val(mat["a"]), checks)
         IN ~x.panic /\ ~y.panic /\ MatEq(Value(x), Value(y))
    /\ (out.op = "add" /\ out.done) =>
         LET y == MatAdd(Val(rhs), Val(self), checks)
         IN ~y.panic /\ MatEq(Val(mat["a"]), Value(y))
    /\ \A s \in Slots : (pc = "idle" /\ Bound(s)) =>
         LET A == Val(mat[s])
             z == ZeroLike(A)
         IN /\ ~z.panic
            /\ \A n \in 1..Len(Value(z).data) : Value(z).data[n] = TDefault
            /\ LET l == MatAdd(A, Value(z), checks)
                   r == MatAdd(Value(z), A, checks)
               IN /\ ~l.panic /\ MatEq(Value(l), A)
                  /\ ~r.panic /\ MatEq(Value(r), A)

\* a + b has run with a a 2 x 2 from try_from and b = new(2, 2).
C8_Witness ==
    /\ out.op = "add" /\ out.done
    /\ Val(self).rows = 2 /\ Val(self).cols = 2
    /\ Val(self).data = <<2, 0 - 2, 2, 2>>
    /\ Val(rhs) = Value(ZeroLike(Val(self)))
    /\ Val(mat["a"]) = Val(self)

\* An indexed write into s that returned: the step, and the cell it names.
WriteStep(s) ==
    /\ pc = "idle" /\ pc' = "done"
    /\ out'.op = "index_mut" /\ out'.slot = s /\ ~out'.panic
    /\ InRange(Val(mat[s]), out'.i, out'.j)

\* Equality in every state: of the two bound matrices, and of a rebuilt one.
C9_EqState ==
    /\ (Bound("a") /\ Bound("b")) =>
         LET A == Val(mat["a"])
             B == Val(mat["b"])
         IN MatEq(A, B) <=>
              /\ A.rows = B.rows /\ A.cols = B.cols
              /\ Len(A.data) = Len(B.data)
              /\ \A n \in 1..Len(A.data) : A.data[n] = B.data[n]
    /\ out.op = "eq" => out.ret = (Val(mat["a"]) = Val(mat["b"]))
    /\ (out.op = "try_from" /\ out.ret.ok) =>
         (TryFromVec(out.input).ok
            /\ MatEq(TryFromVec(out.input).val, Val(mat[out.slot])))
\* Equality across an indexed write that returned.
C9_WriteStep ==
    \A s \in Slots : WriteStep(s) =>
        LET old == Val(mat[s])
            new == Val(mat'[s])
            p == out'.i
            q == out'.j
        IN /\ Cell(new, p, q) = out'.v
           /\ new.rows = old.rows /\ new.cols = old.cols
           /\ Len(new.data) = Len(old.data)
           /\ \A n \in 1..Len(old.data) :
                 n # p * old.cols + q + 1 => new.data[n] = old.data[n]
           /\ out'.v # Cell(old, p, q) =>
                 /\ ~MatEq(old, new) /\ ~MatEq(new, old)
                 /\ \A t \in Slots \ {s} :
                       (Bound(t) /\ MatEq(Val(mat[t]), old)) =>
                          (mat'[t] = mat[t] /\ ~MatEq(Val(mat'[t]), new))
\* C9: two matrices compare equal iff their rows, their cols and their
\* element sequences are equal; a matrix built again by try_from from the
\* same input compares equal; and an indexed write of a different value into
\* an in-range cell makes the matrix unequal to what it was, and to any
\* matrix it was equal to, changing no other cell and neither rows nor cols.
C9_StructuralEq == []C9_EqState /\ [][C9_WriteStep]_vars

\* a and b were equal 2 x 2 matrices from try_from until cell (1, 0) of a was
\* written: they differ there and nowhere else.
C9_Witness ==
    /\ out.op = "index_mut" /\ ~out.panic /\ out.slot = "a"
    /\ out.i = 1 /\ out.j = 0
    /\ Bound("a") /\ Bound("b") /\ validated["a"] /\ validated["b"]
    /\ Val(mat["a"]).rows = 2 /\ Val(mat["a"]).cols = 2
    /\ SameShape(Val(mat["a"]), Val(mat["b"]))
    /\ {n \in 1..4 : Val(mat["a"]).data[n] # Val(mat["b"]).data[n]} = {3}
    /\ ~MatEq(Val(mat["a"]), Val(mat["b"]))

\* The k's whose term cell (p, q) of res holds when the loop stands at (k, i, j).
TermsDone(p, q) == IF p < i \/ (p = i /\ q < j) THEN k + 1 ELSE k

\* The sum of the same terms with k descending.
RECURSIVE RightFold(_, _, _, _, _, _)
RightFold(A, B, p, q, from, n) ==
    IF from = n THEN TDefault
    ELSE TAdd(RightFold(A, B, p, q, from + 1, n),
              TMul(Cell(A, p, from), Cell(B, from, q)))

\* res in every state of the loop nest, and on return.
C10_MulState ==
    /\ pc = "mul" =>
         LET A == Val(self)
             B == Val(rhs)
             R == Val(res)
         IN /\ R.rows = A.rows /\ R.cols = B.cols /\ Len(R.data) = A.rows * B.cols
            /\ (k = 0 /\ i = 0 /\ j = 0) => \A n \in 1..Len(R.data) : R.data[n] = TDefault
            /\ k <= A.cols
            /\ k < A.cols => (i < A.rows /\ j < B.cols) \/ (i = 0 /\ j = 0)
            /\ \A p \in 0..(A.rows - 1), q \in 0..(B.cols - 1) :
                  Cell(R, p, q) = LeftFold(A, B, p, q,
                                           IF k < A.cols THEN TermsDone(p, q) ELSE k)
    /\ (out.op = "mul" /\ out.done) =>
         /\ MulRank(Val(self), Val(rhs), k, i, j) = MulTotal(Val(self), Val(rhs))
              \/ MulTotal(Val(self), Val(rhs)) = 0
         /\ \A p \in 0..(Val(self).rows - 1), q \in 0..(Val(rhs).cols - 1) :
               Cell(Val(mat["a"]), p, q) = LeftFold(Val(self), Val(rhs), p, q, Val(self).cols)
\* One iteration of the loop nest.
C10_MulStep ==
    (pc = "mul" /\ pc' = "mul" /\ <<k, i, j>>' # <<k, i, j>>) =>
        LET A == Val(self)
            B == Val(rhs)
            R == Val(res)
            R2 == Val(res')
        IN /\ k < A.cols /\ i < A.rows /\ j < B.cols
           /\ MulRank(A, B, k', i', j') = MulRank(A, B, k, i, j) + 1
           /\ (i' < A.rows /\ j' < B.cols) \/ (k' = A.cols /\ i' = 0 /\ j' = 0)
           /\ Cell(R2, i, j) = TAdd(Cell(R, i, j), TMul(Cell(A, i, k), Cell(B, k, j)))
           /\ Len(R2.data) = Len(R.data) /\ R2.rows = R.rows /\ R2.cols = R.cols
           /\ \A n \in 1..Len(R.data) : n # i * R.cols + j + 1 => R2.data[n] = R.data[n]
\* C10: mul starts from a res whose cells are all T's default and runs the
\* iterations (k, i, j) with k outermost, then i, then j, each once; an
\* iteration changes cell (i, j) of res alone, to res(i, j) + self(i, k) *
\* rhs(k, j); so every cell is at all times the left-to-right fold of its
\* terms of ascending k, and the returned cell is the fold over all k.
C10_MulOrder == []C10_MulState /\ [][C10_MulStep]_vars

\* A 1 x 3 times a 3 x 1 whose three terms 4, 4, -4 sum to 0 from the left
\* and to 4 from the right: T's addition is not associative here.
C10_Witness ==
    /\ out.op = "mul" /\ out.done
    /\ Val(self).rows = 1 /\ Val(self).cols = 3 /\ Val(rhs).cols = 1
    /\ LeftFold(Val(self), Val(rhs), 0, 0, 3) # RightFold(Val(self), Val(rhs), 0, 0, 0, 3)
    /\ Cell(Val(mat["a"]), 0, 0) = LeftFold(Val(self), Val(rhs), 0, 0, 3)

====
